---- MODULE Spec2Model ----
(***************************************************************************)
(* Model of generate_section3_figures.py: a module that creates an output  *)
(* directory when it is loaded, four figure functions that each create a   *)
(* pyplot figure, draw on it, save it as PNG and PDF through save_figure   *)
(* and close it, the driver main() and the driver loop of the script       *)
(* block.                                                                  *)
(*                                                                         *)
(* Library calls that can fail (plt.figure, plt.tight_layout, fig.savefig) *)
(* raise nondeterministically, at most MaxFaults times in a behaviour.     *)
(* The module is either run as a script (possibly several times in a row,  *)
(* the disk persists, the process state does not) or imported by a client  *)
(* that calls main() and the figure functions in any order.                *)
(***************************************************************************)
EXTENDS Integers, Sequences, FiniteSets, TLC

VARIABLES
    mode,     \* "script": __name__ == "__main__"; "import": loaded by a client
    run,      \* number of the current process (script runs in a row)
    pc,       \* position of the top-level control flow
    idx,      \* 1-based position in the list the active driver loop iterates
    mainRet,  \* where main() returns to: "block" (script) or "prompt" (client)
    frame,    \* activation record of the running figure function, or NoFrame
    exc,      \* exception propagating out of a figure function, or NoExc
    dirs,     \* directories that exist on disk
    disk,     \* files on disk: path -> content
    figs,     \* pyplot's open figures, oldest first; the last is the current one
    fignum,   \* highest figure number pyplot handed out in this process
    rng,      \* state of numpy's global generator
    out,      \* lines printed to stdout by this process
    events,   \* history: calls, writes, returns, raises of this process
    plotted,  \* history: data each figure function has rendered to a file
    hist,     \* history: one summary per finished process
    faults,   \* library failures injected so far
    calls,    \* calls made by the importing client so far
    num       \* the locals of one of the numeric computations inside
              \* plot_pi_cmdr_pipeline and plot_lpc_curriculum, followed on
              \* its own under NumSpec; NoNum under Spec

progVars == <<mode, run, pc, idx, mainRet, frame, exc, dirs, disk, figs,
              fignum, rng, out, events, plotted, hist, faults, calls>>

vars == <<progVars, num>>

-----------------------------------------------------------------------------
(* Bounds *)

MaxFaults == 1
MaxRuns == 2
MaxCalls == 2

-----------------------------------------------------------------------------
(* Program constants *)

OUTPUT_DIR == "paper_figures_section3"

SeedValue == 42

\* numpy's generator, abstracted to a small linear congruential generator:
\* the state after seed(s) depends on s only, every draw advances the state.
RngMod == 16

\* states the generator can be in when the interpreter starts (OS entropy)
EntropyStates == {3, 7}

Funcs == {"plot_system_architecture", "plot_haa_uq_mechanism",
          "plot_pi_cmdr_pipeline", "plot_lpc_curriculum"}

\* mutant: plot_pi_cmdr_pipeline keeps the identifier of the function it was
\* copied from
FigNameCopied(f) ==
    CASE f = "plot_system_architecture" -> "figure3_system_architecture"
      [] f = "plot_haa_uq_mechanism"    -> "figure4_haa_uq_mechanism"
      [] f = "plot_pi_cmdr_pipeline"    -> "figure4_haa_uq_mechanism"
      [] f = "plot_lpc_curriculum"      -> "figure6_lpc_curriculum"

\* the name each figure function passes to save_figure
FigName(f) ==
    CASE f = "plot_system_architecture" -> "figure3_system_architecture"
      [] f = "plot_haa_uq_mechanism"    -> "figure4_haa_uq_mechanism"
      [] f = "plot_pi_cmdr_pipeline"    -> "figure5_pi_cmdr_pipeline"
      [] f = "plot_lpc_curriculum"      -> "figure6_lpc_curriculum"

\* mutant: plot_lpc_curriculum draws its first values before it seeds
BodySeedLate(f) ==
    CASE f = "plot_system_architecture" ->
           <<"figure", "tight_layout", "save_figure", "close">>
      [] f = "plot_haa_uq_mechanism" ->
           <<"figure", "seed", "draw", "draw", "draw", "draw",
             "tight_layout", "save_figure", "close">>
      [] f = "plot_pi_cmdr_pipeline" ->
           <<"figure", "seed", "draw", "tight_layout", "save_figure", "close">>
      [] f = "plot_lpc_curriculum" ->
           <<"figure", "draw", "seed", "draw", "draw",
             "draw", "draw", "draw", "draw", "draw",
             "tight_layout", "save_figure", "close">>

\* the statements of a figure function that touch state shared with the
\* rest of the program, in source order
Body(f) ==
    CASE f = "plot_system_architecture" ->
           <<"figure", "tight_layout", "save_figure", "close">>
      [] f = "plot_haa_uq_mechanism" ->
           <<"figure", "seed", "draw", "draw", "draw", "draw",
             "tight_layout", "save_figure", "close">>
      [] f = "plot_pi_cmdr_pipeline" ->
           <<"figure", "seed", "draw", "tight_layout", "save_figure", "close">>
      [] f = "plot_lpc_curriculum" ->
           <<"figure", "seed", "draw", "draw", "draw",
             "draw", "draw", "draw", "draw", "draw",
             "tight_layout", "save_figure", "close">>

\* the list main() iterates
figures == <<"plot_system_architecture", "plot_haa_uq_mechanism">>

\* mutant: the additional figures are listed in the wrong order
additional_figures_swapped == <<"plot_lpc_curriculum", "plot_pi_cmdr_pipeline">>

\* the list the script block iterates
additional_figures == <<"plot_pi_cmdr_pipeline", "plot_lpc_curriculum">>

LoopList(p) == IF p = "loop1" THEN figures ELSE additional_figures

-----------------------------------------------------------------------------
(* Exceptions *)

NoExc == ""

Parent(k) ==
    CASE k = "FileExistsError"   -> "OSError"
      [] k = "FileNotFoundError" -> "OSError"
      [] k = "OSError"           -> "Exception"
      [] k = "ValueError"        -> "Exception"
      [] k = "RuntimeError"      -> "Exception"
      [] k = "Exception"         -> "BaseException"
      [] OTHER                   -> ""

RECURSIVE IsInstance(_, _)
IsInstance(k, class) ==
    IF k = "" THEN FALSE
    ELSE IF k = class THEN TRUE
    ELSE IsInstance(Parent(k), class)

\* mutant: the loop of main() catches ValueError only
HandlerClassMainNarrow(p) == IF p = "loop1" THEN "ValueError" ELSE "Exception"

\* mutant: the loop of the script block catches ValueError only
HandlerClassNarrow(p) == IF p = "loop1" THEN "Exception" ELSE "ValueError"

\* the class named by the except clause of each driver loop
HandlerClass(p) == IF p = "loop1" THEN "Exception" ELSE "Exception"

-----------------------------------------------------------------------------
(* Paths, files, generator *)

OsPathJoin(dir, file) == [dir |-> dir, file |-> file]

PngPath(name) == OsPathJoin(OUTPUT_DIR, name \o ".png")
\* mutant: pdf_path is built with the PNG extension
PdfPathAsPng(name) == OsPathJoin(OUTPUT_DIR, name \o ".png")
PdfPath(name) == OsPathJoin(OUTPUT_DIR, name \o ".pdf")

NoPath == [dir |-> "", file |-> ""]

\* mutant: os.makedirs is called without exist_ok
MakedirsExistOkOmitted == FALSE

\* the exist_ok argument of the os.makedirs call
MakedirsExistOk == TRUE

\* os.makedirs(d, exist_ok=e): "" when it succeeds, else the exception class
MakedirsResult(d, existing) ==
    IF d \in existing /\ ~MakedirsExistOk THEN "FileExistsError" ELSE ""

\* opening a file for writing creates it or truncates it
WriteFile(d, path, content) ==
    [p \in (DOMAIN d) \cup {path} |-> IF p = path THEN content ELSE d[p]]

RngSeed(s) == s % RngMod
RngNext(s) == (5 * s + 3) % RngMod

\* what a file holds: the rendered figure (its plot data and whether its
\* layout was tightened), the format, the process that wrote it, and whether
\* the write ran to completion
Content(image, fmt, r, ok) == [image |-> image, fmt |-> fmt, run |-> r, ok |-> ok]

NoImage == [data |-> <<>>, tight |-> FALSE]

NoFiles == [p \in {} |-> Content(NoImage, "", 0, FALSE)]

NoFrame == [func |-> "", ip |-> 0, sp |-> 0, fig |-> 0, data |-> <<>>,
            tight |-> FALSE]

Image(fr) == [data |-> fr.data, tight |-> fr.tight]

Event(e, f, p) == [e |-> e, f |-> f, p |-> p]
Line(t, a) == [t |-> t, a |-> a]

NoNum == [task |-> "", pc |-> ""]

InFrame == frame.func # ""
Op == IF InFrame /\ frame.ip <= Len(Body(frame.func))
      THEN Body(frame.func)[frame.ip] ELSE ""

-----------------------------------------------------------------------------
Init ==
    /\ mode \in {"script", "import"}
    /\ run = 1
    /\ pc = "load"
    /\ idx = 0
    /\ mainRet = ""
    /\ frame = NoFrame
    /\ exc = NoExc
    /\ dirs = {}
    /\ disk = NoFiles
    /\ figs = <<>>
    /\ fignum = 0
    /\ rng \in EntropyStates
    /\ out = <<>>
    /\ events = <<>>
    /\ plotted = [f \in Funcs |-> {}]
    /\ hist = <<>>
    /\ faults = 0
    /\ calls = 0
    /\ num = NoNum

-----------------------------------------------------------------------------
(* Module load: lines 26-27, then either the script block or the client *)

\* mutant: the module does not create the output directory
LoadModuleNoMakedirs ==
    /\ pc = "load"
    /\ pc' = IF mode = "script" THEN "main" ELSE "prompt"
    /\ mainRet' = IF mode = "script" THEN "block" ELSE mainRet
    /\ UNCHANGED <<num, mode, run, idx, frame, exc, dirs, disk, figs, fignum, rng,
                   out, events, plotted, hist, faults, calls>>

\* mutant: main() is called without the __name__ == "__main__" guard
LoadModuleUnguarded ==
    /\ pc = "load"
    /\ dirs' = dirs \cup {OUTPUT_DIR}
    /\ pc' = "main"
    /\ mainRet' = IF mode = "script" THEN "block" ELSE "prompt"
    /\ UNCHANGED <<num, mode, run, idx, frame, exc, disk, figs, fignum, rng, out,
                   events, plotted, hist, faults, calls>>

LoadModule ==
    /\ pc = "load"
    /\ LET r == MakedirsResult(OUTPUT_DIR, dirs) IN
       IF r = ""
       THEN /\ dirs' = dirs \cup {OUTPUT_DIR}
            /\ pc' = IF mode = "script" THEN "main" ELSE "prompt"
            /\ mainRet' = IF mode = "script" THEN "block" ELSE mainRet
            /\ UNCHANGED <<exc, events>>
       ELSE /\ pc' = "crash"
            /\ exc' = r
            /\ events' = Append(events, Event("raise", "", NoPath))
            /\ UNCHANGED <<dirs, mainRet>>
    /\ UNCHANGED <<num, mode, run, idx, frame, disk, figs, fignum, rng, out,
                   plotted, hist, faults, calls>>

-----------------------------------------------------------------------------
(* main(): header, loop over figures, banner *)

MainStart ==
    /\ pc = "main"
    /\ out' = Append(out, Line("header", "main"))
    /\ events' = Append(events, Event("loop", "main", NoPath))
    /\ idx' = 1
    /\ pc' = "loop1"
    /\ UNCHANGED <<num, mode, run, mainRet, frame, exc, dirs, disk, figs, fignum,
                   rng, plotted, hist, faults, calls>>

\* try: print(...); func()
LoopCall ==
    /\ pc \in {"loop1", "loop2"}
    /\ ~InFrame
    /\ exc = NoExc
    /\ idx <= Len(LoopList(pc))
    /\ LET f == LoopList(pc)[idx] IN
         /\ out' = Append(out, Line("generating", f))
         /\ frame' = [NoFrame EXCEPT !.func = f, !.ip = 1]
         /\ events' = Append(events, Event("call", f, NoPath))
    /\ UNCHANGED <<num, mode, run, pc, idx, mainRet, exc, dirs, disk, figs, fignum,
                   rng, plotted, hist, faults, calls>>

\* except <class> as e: print(...); traceback.print_exc()
LoopExcept ==
    /\ pc \in {"loop1", "loop2"}
    /\ ~InFrame
    /\ exc # NoExc
    /\ IF IsInstance(exc, HandlerClass(pc))
       THEN /\ out' = Append(out, Line("error", exc))
            /\ exc' = NoExc
            /\ idx' = idx + 1
            /\ pc' = pc
       ELSE /\ pc' = "crash"
            /\ UNCHANGED <<out, exc, idx>>
    /\ UNCHANGED <<num, mode, run, mainRet, frame, dirs, disk, figs, fignum, rng,
                   events, plotted, hist, faults, calls>>

\* the loop of main() is exhausted: banner, return to the caller
MainBanner ==
    /\ pc = "loop1"
    /\ ~InFrame
    /\ exc = NoExc
    /\ idx > Len(figures)
    /\ out' = Append(out, Line("banner", "main"))
    /\ pc' = mainRet
    /\ UNCHANGED <<num, mode, run, idx, mainRet, frame, exc, dirs, disk, figs,
                   fignum, rng, events, plotted, hist, faults, calls>>

\* script block after main(): header of the additional figures
BlockStart ==
    /\ pc = "block"
    /\ out' = Append(out, Line("header", "additional"))
    /\ events' = Append(events, Event("loop", "additional", NoPath))
    /\ idx' = 1
    /\ pc' = "loop2"
    /\ UNCHANGED <<num, mode, run, mainRet, frame, exc, dirs, disk, figs, fignum,
                   rng, plotted, hist, faults, calls>>

\* the loop of the script block is exhausted: final banner, the script ends
BlockBanner ==
    /\ pc = "loop2"
    /\ ~InFrame
    /\ exc = NoExc
    /\ idx > Len(additional_figures)
    /\ out' = Append(out, Line("banner", "all"))
    /\ pc' = "exit"
    /\ UNCHANGED <<num, mode, run, idx, mainRet, frame, exc, dirs, disk, figs,
                   fignum, rng, events, plotted, hist, faults, calls>>

-----------------------------------------------------------------------------
(* Statements of a figure function *)

\* an exception leaves the figure function: the frame is discarded, nothing
\* else is undone
Unwind(kind) ==
    /\ exc' = kind
    /\ events' = Append(events, Event("raise", frame.func, NoPath))
    /\ frame' = NoFrame

\* a library call fails
Raise(kind) ==
    /\ faults < MaxFaults
    /\ faults' = faults + 1
    /\ Unwind(kind)

\* fig = plt.figure(figsize=...)
PltFigure ==
    /\ Op = "figure"
    /\ \/ /\ Raise("RuntimeError")
          /\ UNCHANGED <<figs, fignum>>
       \/ /\ fignum' = fignum + 1
          /\ figs' = Append(figs, fignum + 1)
          /\ frame' = [frame EXCEPT !.fig = fignum + 1, !.ip = @ + 1]
          /\ UNCHANGED <<exc, events, faults>>
    /\ UNCHANGED <<num, mode, run, pc, idx, mainRet, dirs, disk, rng, out, plotted,
                   hist, calls>>

\* np.random.seed(42)
NpRandomSeed ==
    /\ Op = "seed"
    /\ rng' = RngSeed(SeedValue)
    /\ frame' = [frame EXCEPT !.ip = @ + 1]
    /\ UNCHANGED <<num, mode, run, pc, idx, mainRet, exc, dirs, disk, figs, fignum,
                   out, events, plotted, hist, faults, calls>>

\* np.random.rand / randn / uniform / beta: the drawn values become plot data
NpRandomDraw ==
    /\ Op = "draw"
    /\ rng' = RngNext(rng)
    /\ frame' = [frame EXCEPT !.ip = @ + 1, !.data = Append(@, RngNext(rng))]
    /\ UNCHANGED <<num, mode, run, pc, idx, mainRet, exc, dirs, disk, figs, fignum,
                   out, events, plotted, hist, faults, calls>>

\* plt.tight_layout(...): tightens the layout of pyplot's current figure
PltTightLayout ==
    /\ Op = "tight_layout"
    /\ \/ Raise("ValueError")
       \/ /\ frame' = [frame EXCEPT !.ip = @ + 1,
                                    !.tight = figs # <<>> /\ figs[Len(figs)] = frame.fig]
          /\ UNCHANGED <<exc, events, faults>>
    /\ UNCHANGED <<num, mode, run, pc, idx, mainRet, dirs, disk, figs, fignum, rng,
                   out, plotted, hist, calls>>

\* mutant: save_figure prints its Saved line before it writes
SaveFigureEnterPrintsFirst ==
    /\ Op = "save_figure"
    /\ frame.sp = 0
    /\ out' = Append(out, Line("saved", FigName(frame.func)))
    /\ frame' = [frame EXCEPT !.sp = 1]
    /\ UNCHANGED <<num, mode, run, pc, idx, mainRet, exc, dirs, disk, figs, fignum,
                   rng, events, plotted, hist, faults, calls>>

\* save_figure(fig, name) is entered: png_path and pdf_path are computed
SaveFigureEnter ==
    /\ Op = "save_figure"
    /\ frame.sp = 0
    /\ frame' = [frame EXCEPT !.sp = 1]
    /\ UNCHANGED <<num, mode, run, pc, idx, mainRet, exc, dirs, disk, figs, fignum,
                   rng, out, events, plotted, hist, faults, calls>>

\* fig.savefig(path, ...): writes the rendered figure, or raises, possibly
\* after it created the file
Savefig(path, fmt) ==
    IF path.dir \notin dirs
    THEN /\ Unwind("FileNotFoundError")
         /\ UNCHANGED <<disk, plotted, faults>>
    ELSE \/ /\ Raise("OSError")
            /\ UNCHANGED <<disk, plotted>>
         \/ /\ faults < MaxFaults
            /\ faults' = faults + 1
            /\ exc' = "OSError"
            /\ events' = Append(Append(events,
                                        Event("partial", frame.func, path)),
                                 Event("raise", frame.func, NoPath))
            /\ frame' = NoFrame
            /\ disk' = WriteFile(disk, path, Content(NoImage, fmt, run, FALSE))
            /\ UNCHANGED plotted
         \/ /\ disk' = WriteFile(disk, path,
                                 Content(Image(frame), fmt, run, TRUE))
            /\ plotted' = [plotted EXCEPT ![frame.func] = @ \cup {Image(frame)}]
            /\ events' = Append(events, Event("write", frame.func, path))
            /\ frame' = [frame EXCEPT !.sp = @ + 1]
            /\ UNCHANGED <<exc, faults>>

\* fig.savefig(png_path, dpi=300, bbox_inches='tight')
SavefigPng ==
    /\ Op = "save_figure"
    /\ frame.sp = 1
    /\ Savefig(PngPath(FigName(frame.func)), "png")
    /\ UNCHANGED <<num, mode, run, pc, idx, mainRet, dirs, figs, fignum, rng, out,
                   hist, calls>>

\* mutant: save_figure does not write the PDF and goes on
SavefigPdfSkipped ==
    /\ Op = "save_figure"
    /\ frame.sp = 2
    /\ frame' = [frame EXCEPT !.sp = @ + 1]
    /\ UNCHANGED <<num, mode, run, pc, idx, mainRet, exc, dirs, disk, figs, fignum,
                   rng, out, events, plotted, hist, faults, calls>>

\* fig.savefig(pdf_path, bbox_inches='tight')
SavefigPdf ==
    /\ Op = "save_figure"
    /\ frame.sp = 2
    /\ Savefig(PdfPath(FigName(frame.func)), "pdf")
    /\ UNCHANGED <<num, mode, run, pc, idx, mainRet, dirs, figs, fignum, rng, out,
                   hist, calls>>

\* print(f"  Saved: {name}"), save_figure returns
SaveFigurePrint ==
    /\ Op = "save_figure"
    /\ frame.sp = 3
    /\ out' = Append(out, Line("saved", FigName(frame.func)))
    /\ frame' = [frame EXCEPT !.sp = 0, !.ip = @ + 1]
    /\ UNCHANGED <<num, mode, run, pc, idx, mainRet, exc, dirs, disk, figs, fignum,
                   rng, events, plotted, hist, faults, calls>>

\* plt.close(): closes pyplot's current figure, if there is one
PltClose ==
    /\ Op = "close"
    /\ figs' = IF figs = <<>> THEN figs ELSE SubSeq(figs, 1, Len(figs) - 1)
    /\ frame' = [frame EXCEPT !.ip = @ + 1]
    /\ UNCHANGED <<num, mode, run, pc, idx, mainRet, exc, dirs, disk, fignum, rng,
                   out, events, plotted, hist, faults, calls>>

\* the figure function returns normally; a driver loop goes to its next item
Return ==
    /\ InFrame
    /\ frame.ip > Len(Body(frame.func))
    /\ events' = Append(events, Event("return", frame.func, NoPath))
    /\ frame' = NoFrame
    /\ idx' = IF pc \in {"loop1", "loop2"} THEN idx + 1 ELSE idx
    /\ UNCHANGED <<num, mode, run, pc, mainRet, exc, dirs, disk, figs, fignum, rng,
                   out, plotted, hist, faults, calls>>

-----------------------------------------------------------------------------
(* A client that imported the module *)

ClientCallFigure ==
    /\ pc = "prompt"
    /\ ~InFrame
    /\ exc = NoExc
    /\ calls < MaxCalls
    /\ \E f \in Funcs :
         /\ frame' = [NoFrame EXCEPT !.func = f, !.ip = 1]
         /\ events' = Append(events, Event("call", f, NoPath))
    /\ calls' = calls + 1
    /\ UNCHANGED <<num, mode, run, pc, idx, mainRet, exc, dirs, disk, figs, fignum,
                   rng, out, plotted, hist, faults>>

ClientCallMain ==
    /\ pc = "prompt"
    /\ ~InFrame
    /\ exc = NoExc
    /\ calls < MaxCalls
    /\ calls' = calls + 1
    /\ pc' = "main"
    /\ mainRet' = "prompt"
    /\ UNCHANGED <<num, mode, run, idx, frame, exc, dirs, disk, figs, fignum, rng,
                   out, events, plotted, hist, faults>>

\* the client sees the exception of a figure function it called directly
ClientCatch ==
    /\ pc = "prompt"
    /\ ~InFrame
    /\ exc # NoExc
    /\ exc' = NoExc
    /\ UNCHANGED <<num, mode, run, pc, idx, mainRet, frame, dirs, disk, figs,
                   fignum, rng, out, events, plotted, hist, faults, calls>>

-----------------------------------------------------------------------------
(* The script is run again: a new process on the same disk *)

Failed(ev) == {ev[i].f : i \in {j \in 1..Len(ev) : ev[j].e = "raise"}}

Rerun ==
    /\ mode = "script"
    /\ pc \in {"exit", "crash"}
    /\ run < MaxRuns
    /\ hist' = Append(hist, [files |-> DOMAIN disk, events |-> events,
                             pc |-> pc])
    /\ run' = run + 1
    /\ pc' = "load"
    /\ idx' = 0
    /\ mainRet' = ""
    /\ frame' = NoFrame
    /\ exc' = NoExc
    /\ figs' = <<>>
    /\ fignum' = 0
    /\ rng' \in EntropyStates
    /\ out' = <<>>
    /\ events' = <<>>
    /\ UNCHANGED <<num, mode, dirs, disk, plotted, faults, calls>>

-----------------------------------------------------------------------------
Next ==
    \/ LoadModule
    \/ MainStart
    \/ LoopCall
    \/ LoopExcept
    \/ MainBanner
    \/ BlockStart
    \/ BlockBanner
    \/ PltFigure
    \/ NpRandomSeed
    \/ NpRandomDraw
    \/ PltTightLayout
    \/ SaveFigureEnter
    \/ SavefigPng
    \/ SavefigPdf
    \/ SaveFigurePrint
    \/ PltClose
    \/ Return
    \/ ClientCallFigure
    \/ ClientCallMain
    \/ ClientCatch
    \/ Rerun

Spec == Init /\ [][Next]_vars

-----------------------------------------------------------------------------
(* Numeric computations of the figure functions.  Floating-point values are *)
(* carried as exact fractions over a fixed denominator.                     *)

\* ---- plot_lpc_curriculum, training progression timeline (lines 895-914)

episodes_per_stage == <<180, 200, 260, 280, 220>>

\* mutant: the cumulative sum is taken without the leading zero
CumsumArgNoZero == episodes_per_stage

\* the argument of np.cumsum: [0] + episodes_per_stage
CumsumArg == <<0>> \o episodes_per_stage

RECURSIVE NpCumsum(_)
NpCumsum(s) ==
    IF s = <<>> THEN <<>>
    ELSE LET r == NpCumsum(SubSeq(s, 1, Len(s) - 1))
         IN  Append(r, (IF r = <<>> THEN 0 ELSE r[Len(r)]) + s[Len(s)])

TimelineStart ==
    [task |-> "timeline", pc |-> "cumsum", cumulative |-> <<>>, i |-> 0,
     bars |-> <<>>, xlim |-> <<0, 1>>, total |-> 0]

\* cumulative = np.cumsum([0] + episodes_per_stage)
TimelineCumsum ==
    /\ num.task = "timeline"
    /\ num.pc = "cumsum"
    /\ num' = [num EXCEPT !.cumulative = NpCumsum(CumsumArg), !.pc = "bars"]
    /\ UNCHANGED progVars

\* for i in range(5): ax6.barh(0, episodes_per_stage[i], left=cumulative[i])
TimelineBar ==
    /\ num.task = "timeline"
    /\ num.pc = "bars"
    /\ num.i < 5
    /\ num' = [num EXCEPT
                 !.bars = Append(@, [left  |-> num.cumulative[num.i + 1],
                                     width |-> episodes_per_stage[num.i + 1]]),
                 !.i = @ + 1]
    /\ UNCHANGED progVars

\* ax6.set_xlim(0, cumulative[-1])
TimelineXlim ==
    /\ num.task = "timeline"
    /\ num.pc = "bars"
    /\ num.i = 5
    /\ num' = [num EXCEPT
                 !.xlim = <<0, num.cumulative[Len(num.cumulative)]>>,
                 !.pc = "total"]
    /\ UNCHANGED progVars

\* ax6.text(..., f'Total: {cumulative[-1]} episodes (vs 2000 uniform)')
TimelineTotal ==
    /\ num.task = "timeline"
    /\ num.pc = "total"
    /\ num' = [num EXCEPT !.total = num.cumulative[Len(num.cumulative)],
                          !.pc = "done"]
    /\ UNCHANGED progVars

\* ---- plot_pi_cmdr_pipeline, fused depth (line 662)
\* Depths are in units of 1/30 m; weights and the scale factor in tenths; a
\* fused depth is in units of 1/30000 m.

\* values of depth_visual: 1.5 m (the obstacle) and values of rand*5 + 2
VisualDepths == {45, 60, 100, 150, 209}

\* values of depth_geo = 2 + 0.3 * Y, Y in linspace(0, 10, 10)
GeoDepths == {60 + 10 * k : k \in 0..9}

\* mutant: the third weight is 0.3
FusionWeightsHeavy == <<5, 3, 3>>

\* the weights 0.5, 0.3, 0.2
FusionWeights == <<5, 3, 2>>

\* the factor 0.9 of the third term
ScaledVisualTenths == 9

\* 0.5 * depth_visual + 0.3 * depth_geo + 0.2 * (depth_visual * 0.9)
DepthFused(v, g) ==
    FusionWeights[1] * v * 100 + FusionWeights[2] * g * 100
      + FusionWeights[3] * (v * ScaledVisualTenths) * 10

FusionStart(v, g) ==
    [task |-> "fusion", pc |-> "fuse", v |-> v, g |-> g, fused |-> 0]

FuseDepth ==
    /\ num.task = "fusion"
    /\ num.pc = "fuse"
    /\ num' = [num EXCEPT !.fused = DepthFused(num.v, num.g), !.pc = "done"]
    /\ UNCHANGED progVars

\* ---- plot_lpc_curriculum, sampling matrix (lines 951-960)

n_phases == 24
n_envs_display == 30
GaussDenominator == 50

\* mutant: the progress of a phase is taken at the end of the phase
CenterOffByOne(phase) == ((phase + 1) * n_envs_display) \div n_phases

\* center = int((phase / n_phases) * n_envs_display); for the 24 phases the
\* double-precision product truncates to the same integer as the exact one
Center(phase) == (phase * n_envs_display) \div n_phases

Abs(x) == IF x < 0 THEN 0 - x ELSE x

\* An entry of the matrix is 0.0 (as np.zeros left it) or
\* np.exp(-distance**2 / 50); the exponent is carried as the fraction x / den.
ZeroEntry == [zero |-> TRUE, x |-> 0, den |-> 1]
ExpEntry(env, center) ==
    LET distance == Abs(env - center)
    IN  [zero |-> FALSE, x |-> 0 - distance * distance, den |-> GaussDenominator]

\* a > b for two entries: exp is positive and strictly increasing
EntryGreater(a, b) ==
    /\ ~a.zero
    /\ b.zero \/ a.x * b.den > b.x * a.den

SamplingStart ==
    [task |-> "sampling", pc |-> "phase", phase |-> 0, env |-> 0,
     center |-> 0, centers |-> <<>>,
     matrix |-> [q \in (0..(n_phases - 1)) \X (0..(n_envs_display - 1))
                   |-> ZeroEntry]]

\* for phase in range(n_phases): progress = ...; center = int(...)
SamplingPhase ==
    /\ num.task = "sampling"
    /\ num.pc = "phase"
    /\ num.phase < n_phases
    /\ num' = [num EXCEPT !.center = Center(num.phase),
                          !.centers = Append(@, Center(num.phase)),
                          !.env = 0,
                          !.pc = "env"]
    /\ UNCHANGED progVars

\* for env in range(n_envs_display): sampling_matrix[phase, env] = np.exp(...)
SamplingEnv ==
    /\ num.task = "sampling"
    /\ num.pc = "env"
    /\ num.env < n_envs_display
    /\ num' = [num EXCEPT
                 !.matrix[<<num.phase, num.env>>] = ExpEntry(num.env, num.center),
                 !.env = @ + 1]
    /\ UNCHANGED progVars

\* the inner loop is exhausted: next phase
SamplingRowDone ==
    /\ num.task = "sampling"
    /\ num.pc = "env"
    /\ num.env = n_envs_display
    /\ num' = [num EXCEPT !.phase = @ + 1, !.pc = "phase"]
    /\ UNCHANGED progVars

\* the outer loop is exhausted
SamplingDone ==
    /\ num.task = "sampling"
    /\ num.pc = "phase"
    /\ num.phase = n_phases
    /\ num' = [num EXCEPT !.pc = "done"]
    /\ UNCHANGED progVars

NumInit ==
    /\ mode = "import"
    /\ run = 1
    /\ pc = "load"
    /\ idx = 0
    /\ mainRet = ""
    /\ frame = NoFrame
    /\ exc = NoExc
    /\ dirs = {}
    /\ disk = NoFiles
    /\ figs = <<>>
    /\ fignum = 0
    /\ rng = RngSeed(SeedValue)
    /\ out = <<>>
    /\ events = <<>>
    /\ plotted = [f \in Funcs |-> {}]
    /\ hist = <<>>
    /\ faults = 0
    /\ calls = 0
    /\ num \in {TimelineStart, SamplingStart}
                 \cup {FusionStart(v, g) : v \in VisualDepths, g \in GeoDepths}

NumNext ==
    \/ TimelineCumsum
    \/ TimelineBar
    \/ TimelineXlim
    \/ TimelineTotal
    \/ FuseDepth
    \/ SamplingPhase
    \/ SamplingEnv
    \/ SamplingRowDone
    \/ SamplingDone

NumSpec == NumInit /\ [][NumNext]_vars

-----------------------------------------------------------------------------
(* Reading the history *)

Indices(ev, kind) == {i \in 1..Len(ev) : ev[i].e = kind}

MaxOf(S) == CHOOSE x \in S : \A y \in S : y <= x

\* position of the latest event of a kind at or before i, 0 if there is none
LastAt(ev, kind, i) ==
    LET S == {j \in Indices(ev, kind) : j <= i}
    IN  IF S = {} THEN 0 ELSE MaxOf(S)

IsCall(x) == x.e = "call"
IsDiskEvent(x) == x.e \in {"write", "partial"}
IsOutcome(x) == x.e \in {"write", "partial", "return", "raise"}

\* the functions called, in call order
CallsIn(ev) ==
    LET c == SelectSeq(ev, IsCall) IN [i \in 1..Len(c) |-> c[i].f]

\* the disk events between the call that precedes position i and position i
DiskEventsOfCall(ev, i) ==
    SelectSeq(SubSeq(ev, LastAt(ev, "call", i), i), IsDiskEvent)

ExpectedDir == "paper_figures_section3"
ExpectedName(f) ==
    CASE f = "plot_system_architecture" -> "figure3_system_architecture"
      [] f = "plot_haa_uq_mechanism"    -> "figure4_haa_uq_mechanism"
      [] f = "plot_pi_cmdr_pipeline"    -> "figure5_pi_cmdr_pipeline"
      [] f = "plot_lpc_curriculum"      -> "figure6_lpc_curriculum"
ExpectedPng(f) == [dir |-> ExpectedDir, file |-> ExpectedName(f) \o ".png"]
ExpectedPdf(f) == [dir |-> ExpectedDir, file |-> ExpectedName(f) \o ".pdf"]

\* f has written both its files completely between positions a and b
WrotePair(ev, f, a, b) ==
    /\ \E i \in a..b : ev[i] = Event("write", f, ExpectedPng(f))
    /\ \E i \in a..b : ev[i] = Event("write", f, ExpectedPdf(f))

Returned(ev) == {ev[i].f : i \in Indices(ev, "return")}

-----------------------------------------------------------------------------
(* C1: a call of a figure function that returns normally has written        *)
(* exactly two files, <name>.png and <name>.pdf of its own identifier in    *)
(* the output directory, each once and completely, and no other file.       *)
C1_ReturnedCallWroteItsPair ==
    \A i \in Indices(events, "return") :
        LET f == events[i].f
            w == DiskEventsOfCall(events, i)
        IN  /\ Len(w) = 2
            /\ w[1] = Event("write", f, ExpectedPng(f))
            /\ w[2] = Event("write", f, ExpectedPdf(f))
            /\ {ExpectedPng(f), ExpectedPdf(f)} \subseteq DOMAIN disk

\* all four figure functions have returned normally in one script run
C1_Witness ==
    /\ mode = "script"
    /\ Returned(events) = Funcs

-----------------------------------------------------------------------------
(* C2: in both driver loops a failure of one figure is caught and logged    *)
(* and the loop moves on: no exception escapes a driver loop, every failure *)
(* raised inside a loop has its ERROR line, the loop has attempted exactly  *)
(* the items before its current position, and when a loop prints its banner *)
(* it has attempted every item of its list, whatever failed before.         *)
LoopStart(ev) == LastAt(ev, "loop", Len(ev))

LoopEvents(ev) == SubSeq(ev, LoopStart(ev) + 1, Len(ev))

IsErrorLine(x) == x.t = "error"
IsHeader(x) == x.t = "header"

\* the lines printed since the latest header
LoopLines(o) ==
    LET h == {i \in 1..Len(o) : o[i].t = "header"}
    IN  IF h = {} THEN <<>> ELSE SubSeq(o, MaxOf(h) + 1, Len(o))

C2_FailureCaughtLoggedAndLoopContinues ==
    /\ pc # "crash"
    /\ (pc \in {"loop1", "loop2"} /\ ~InFrame /\ exc = NoExc) =>
          /\ CallsIn(LoopEvents(events)) = SubSeq(LoopList(pc), 1, idx - 1)
          /\ Len(SelectSeq(LoopLines(out), IsErrorLine))
               = Cardinality(Indices(LoopEvents(events), "raise"))
    /\ (out # <<>> /\ out[Len(out)] = Line("banner", "main")) =>
          \A f \in {"plot_system_architecture", "plot_haa_uq_mechanism"} :
             \E i \in Indices(events, "call") :
                i > LastAt(events, "loop", Len(events)) /\ events[i].f = f
    /\ (out # <<>> /\ out[Len(out)] = Line("banner", "all")) =>
          \A f \in {"plot_pi_cmdr_pipeline", "plot_lpc_curriculum"} :
             \E i \in Indices(events, "call") :
                i > LastAt(events, "loop", Len(events)) /\ events[i].f = f

\* a script run ended in which figure 5 failed and figure 6 was still
\* attempted after it
C2_Witness ==
    /\ pc = "exit"
    /\ Failed(events) = {"plot_pi_cmdr_pipeline"}
    /\ Line("error", "OSError") \in {out[i] : i \in 1..Len(out)}
    /\ CallsIn(events) = <<"plot_system_architecture", "plot_haa_uq_mechanism",
                           "plot_pi_cmdr_pipeline", "plot_lpc_curriculum">>

-----------------------------------------------------------------------------
(* C4: in a script run the figure functions are called in the order figure  *)
(* 3, 4, 5, 6, each at most once at any time and each exactly once when the *)
(* script ends, whether or not any of them failed.                          *)
ScriptOrder == <<"plot_system_architecture", "plot_haa_uq_mechanism",
                 "plot_pi_cmdr_pipeline", "plot_lpc_curriculum">>

C4_EachFigureOnceInOrder ==
    mode = "script" =>
       /\ Len(CallsIn(events)) <= Len(ScriptOrder)
       /\ CallsIn(events) = SubSeq(ScriptOrder, 1, Len(CallsIn(events)))
       /\ pc \in {"exit", "crash"} => CallsIn(events) = ScriptOrder

\* a script run ended in which figure 4 failed
C4_Witness ==
    /\ mode = "script"
    /\ pc = "exit"
    /\ Failed(events) = {"plot_haa_uq_mechanism"}
    /\ Len(CallsIn(events)) = 4

-----------------------------------------------------------------------------
(* C5: the file writes of two figures never interleave: every disk write    *)
(* belongs to the figure function called last, and when a figure function   *)
(* is called, every figure called before it in this process has either      *)
(* written both its PNG and its PDF and returned, or has failed.            *)
C5_WritesOfFiguresDoNotInterleave ==
    /\ \A i \in 1..Len(events) :
          IsDiskEvent(events[i]) =>
             LET c == LastAt(events, "call", i)
             IN  /\ c > 0
                 /\ events[c].f = events[i].f
                 /\ \A j \in c..i : events[j].e \notin {"return", "raise"}
    /\ LET C == Indices(events, "call") IN
       \A c \in C :
          \A n \in C :
             (n > c /\ \A m \in C : ~(c < m /\ m < n)) =>
                LET f == events[c].f
                    seg == SelectSeq(SubSeq(events, c + 1, n - 1), IsOutcome)
                IN  \/ seg = <<Event("raise", f, NoPath)>>
                    \/ seg = <<Event("partial", f, ExpectedPng(f)),
                               Event("raise", f, NoPath)>>
                    \/ seg = <<Event("write", f, ExpectedPng(f)),
                               Event("raise", f, NoPath)>>
                    \/ seg = <<Event("write", f, ExpectedPng(f)),
                               Event("partial", f, ExpectedPdf(f)),
                               Event("raise", f, NoPath)>>
                    \/ seg = <<Event("write", f, ExpectedPng(f)),
                               Event("write", f, ExpectedPdf(f)),
                               Event("return", f, NoPath)>>

\* figure 4 is writing its PDF after figure 3 wrote both files, and figure 5
\* writes after figure 4 failed in its PDF write
C5_Witness ==
    /\ mode = "script"
    /\ "plot_system_architecture" \in Returned(events)
    /\ "plot_haa_uq_mechanism" \in Failed(events)
    /\ \E i \in Indices(events, "partial") :
          events[i] = Event("partial", "plot_haa_uq_mechanism",
                            ExpectedPdf("plot_haa_uq_mechanism"))
    /\ InFrame /\ frame.func = "plot_pi_cmdr_pipeline" /\ frame.sp = 2

-----------------------------------------------------------------------------
(* C3: a second run of the script on the disk the first run left raises no  *)
(* error because the directory or the files exist, removes no file, and,    *)
(* when it proceeds as the first run did, ends with the same set of file    *)
(* names, every file the first run wrote being written anew.                *)
PathsWritten(ev) == {ev[i].p : i \in {j \in 1..Len(ev) : IsDiskEvent(ev[j])}}

C3_RerunOverwritesWithoutError ==
    run >= 2 =>
       LET prev == hist[run - 1]
       IN  /\ pc # "crash"
           /\ exc # "FileExistsError"
           /\ prev.files \subseteq DOMAIN disk
           /\ (pc = "exit" /\ events = prev.events) =>
                 /\ DOMAIN disk = prev.files
                 /\ \A p \in PathsWritten(prev.events) : disk[p].run = run

\* the second run ended as the first did, with all eight files on disk
C3_Witness ==
    /\ run = 2
    /\ pc = "exit"
    /\ events = hist[1].events
    /\ Cardinality(DOMAIN disk) = 8

-----------------------------------------------------------------------------
(* C6: when main() has printed its banner and no figure function failed in  *)
(* it, the PNG/PDF pairs of figures 3, 4, 5 and 6 have been written.        *)
C6_MainGeneratesAllFigures ==
    (/\ out # <<>>
     /\ out[Len(out)] = Line("banner", "main")
     /\ Indices(LoopEvents(events), "raise") = {}) =>
        \A f \in Funcs : WrotePair(events, f, LoopStart(events), Len(events))

-----------------------------------------------------------------------------
(* C7: what a figure function renders does not depend on what ran before    *)
(* it: all files a figure function ever writes hold the same plot data,     *)
(* laid out on its own figure, and plot_system_architecture plots no random *)
(* data.                                                                    *)
C7_RenderingIndependentOfHistory ==
    \A f \in Funcs :
       /\ Cardinality(plotted[f]) <= 1
       /\ \A im \in plotted[f] : im.tight
       /\ f = "plot_system_architecture" => \A im \in plotted[f] : im.data = <<>>

\* a client called plot_lpc_curriculum twice in a row and both calls
\* returned: the second call started from the generator state the first left
C7_Witness ==
    /\ mode = "import"
    /\ CallsIn(events) = <<"plot_lpc_curriculum", "plot_lpc_curriculum">>
    /\ Cardinality(Indices(events, "return")) = 2
    /\ rng # RngSeed(SeedValue)

-----------------------------------------------------------------------------
(* C8: every file written lies in the directory paper_figures_section3      *)
(* under the name of one of the four figure identifiers, and no path is     *)
(* written by two different figure functions (their identifiers differ).    *)
C8_WritesStayInOutputDirAndDoNotCollide ==
    /\ \A p \in DOMAIN disk :
          /\ p.dir = ExpectedDir
          /\ \E f \in Funcs : p \in {ExpectedPng(f), ExpectedPdf(f)}
    /\ LET d == SelectSeq(events, IsDiskEvent) IN
          /\ \A i \in 1..Len(d) : d[i].p.dir = ExpectedDir
          /\ \A i, j \in 1..Len(d) : d[i].f # d[j].f => d[i].p # d[j].p

\* all four figure functions have written both their files
C8_Witness ==
    /\ Cardinality(DOMAIN disk) = 8
    /\ Cardinality(PathsWritten(events)) = 8

-----------------------------------------------------------------------------
(* C9: when a completion banner is the last line printed, every figure      *)
(* function called before it in this process has written both its PNG and   *)
(* its PDF.                                                                 *)
C9_BannerImpliesAllSaved ==
    (out # <<>> /\ out[Len(out)].t = "banner") =>
       \A c \in Indices(events, "call") :
          WrotePair(events, events[c].f, c, Len(events))

-----------------------------------------------------------------------------
(* C10: when a driver loop of a script run is between two figures (or past  *)
(* the last one), no figure created by a figure function is still open.     *)
C10_NoFigureOpenBetweenFigures ==
    (/\ mode = "script"
     /\ pc \in {"loop1", "loop2"}
     /\ ~InFrame
     /\ exc = NoExc) => figs = <<>>

-----------------------------------------------------------------------------
(* C11: whenever no figure function is running and no exception is pending  *)
(* (the driver is between two figures, or has finished), every figure has   *)
(* either both its PNG and its PDF written by this process or neither.      *)
WrittenByRun(p) == p \in DOMAIN disk /\ disk[p].run = run

C11_OutputsComeInPairs ==
    (/\ ~InFrame
     /\ exc = NoExc
     /\ pc \in {"loop1", "loop2", "block", "exit", "prompt"}) =>
        \A f \in Funcs :
           WrittenByRun(ExpectedPng(f)) <=> WrittenByRun(ExpectedPdf(f))

-----------------------------------------------------------------------------
(* C12: in save_figure the PNG is written before the PDF and the Saved line *)
(* comes last: a PDF write (complete or not) directly follows the complete  *)
(* PNG write of the same call, the function is at its PDF write only after  *)
(* its PNG write and at its print only after both, and a name never has     *)
(* more Saved lines than complete PDF writes.                               *)
CountLines(o, l) == Cardinality({i \in 1..Len(o) : o[i] = l})
CountEvents(ev, x) == Cardinality({i \in 1..Len(ev) : ev[i] = x})

C12_PngThenPdfThenSaved ==
    /\ \A i \in 1..Len(events) :
          (IsDiskEvent(events[i]) /\ events[i].p = ExpectedPdf(events[i].f)) =>
             /\ i > 1
             /\ events[i - 1] = Event("write", events[i].f,
                                      ExpectedPng(events[i].f))
    /\ (InFrame /\ frame.sp = 2) =>
          events[Len(events)] = Event("write", frame.func,
                                      ExpectedPng(frame.func))
    /\ (InFrame /\ frame.sp = 3) =>
          /\ events[Len(events)] = Event("write", frame.func,
                                         ExpectedPdf(frame.func))
          /\ events[Len(events) - 1] = Event("write", frame.func,
                                             ExpectedPng(frame.func))
    /\ \A f \in Funcs :
          CountLines(out, Line("saved", ExpectedName(f)))
             <= CountEvents(events, Event("write", f, ExpectedPdf(f)))

\* figure 3 failed in its PNG write, so it has no PDF write and no Saved
\* line, and figure 4 was saved after it
C12_Witness ==
    /\ \E i \in 1..Len(events) :
          events[i] = Event("partial", "plot_system_architecture",
                            ExpectedPng("plot_system_architecture"))
    /\ CountLines(out, Line("saved", "figure3_system_architecture")) = 0
    /\ CountLines(out, Line("saved", "figure4_haa_uq_mechanism")) = 1
    /\ ExpectedPdf("plot_system_architecture") \notin DOMAIN disk

-----------------------------------------------------------------------------
(* C13: a step of a figure function, successful or failing, changes no file *)
(* other than the PNG and the PDF of its own identifier: every other file   *)
(* on disk stays, with its content, and no other file appears.              *)
C13_FigureTouchesOnlyItsOwnFiles ==
    [][InFrame =>
         \A p \in (DOMAIN disk) \cup (DOMAIN disk') :
            p \notin {ExpectedPng(frame.func), ExpectedPdf(frame.func)} =>
               /\ p \in DOMAIN disk
               /\ p \in DOMAIN disk'
               /\ disk'[p] = disk[p]]_vars

\* in a second run figure 5 has failed in its PDF write while the files of
\* the other three figures, written by the first run, are on disk
C13_Witness ==
    /\ run = 2
    /\ Cardinality(DOMAIN disk) = 8
    /\ "plot_pi_cmdr_pipeline" \in Failed(events)
    /\ ~disk[ExpectedPdf("plot_pi_cmdr_pipeline")].ok
    /\ disk[ExpectedPdf("plot_lpc_curriculum")].run = 1

-----------------------------------------------------------------------------
(* C14: the output directory exists from the end of module load on, in      *)
(* every process, so it exists whenever a figure function runs and when     *)
(* save_figure writes; no write ever fails because the directory is missing *)
(* and the directory is never removed.                                      *)
C14_OutputDirExistsForSaveFigure ==
    /\ pc # "load" => ExpectedDir \in dirs
    /\ run >= 2 => ExpectedDir \in dirs
    /\ InFrame => ExpectedDir \in dirs
    /\ (InFrame /\ frame.sp \in {1, 2}) =>
          /\ PngPath(FigName(frame.func)).dir \in dirs
          /\ PdfPath(FigName(frame.func)).dir \in dirs
    /\ exc # "FileNotFoundError"

\* save_figure is about to write in a second run, which found the directory
\* already there
C14_Witness ==
    /\ run = 2
    /\ InFrame
    /\ frame.sp = 1

-----------------------------------------------------------------------------
(* C15: main() terminates with its banner whatever the figure functions do: *)
(* inside main() a step is always possible, every step of the loop lowers a *)
(* natural-number measure, no exception leaves main(), and when the banner  *)
(* is printed the loop has made exactly one call per listed figure.         *)
MainMeasure ==
    (Len(figures) + 1 - idx) * 200
      + (IF InFrame THEN 100 - (4 * frame.ip + frame.sp)
         ELSE IF exc # NoExc THEN 10 ELSE 150)

-----------------------------------------------------------------------------
(* C16: loading the module without running it as a script creates the       *)
(* output directory and nothing else: until the client makes its first call *)
(* no file is written, no figure function has been called, nothing is       *)
(* printed and no figure is open.                                           *)
C16_ImportGeneratesNothing ==
    (mode = "import" /\ calls = 0) =>
       /\ disk = NoFiles
       /\ dirs \subseteq {ExpectedDir}
       /\ events = <<>>
       /\ out = <<>>
       /\ figs = <<>>
       /\ ~InFrame
       /\ pc \in {"load", "prompt"}

\* the module has been imported and the client has not called anything yet
C16_Witness ==
    /\ mode = "import"
    /\ pc = "prompt"
    /\ calls = 0
    /\ dirs = {ExpectedDir}

-----------------------------------------------------------------------------
(* C17: the five stage bars of the timeline tile the episode axis: the      *)
(* first bar starts at 0, every bar starts where the one before it ends,    *)
(* every bar has a positive width, the x-axis ends where bar 5 ends, and    *)
(* the printed total is 180+200+260+280+220.                                *)
BarEnd(b) == b.left + b.width

C17_StageBarsTileTheAxis ==
    num.task = "timeline" =>
       /\ \A k \in 1..Len(num.bars) :
             /\ num.bars[k].width > 0
             /\ num.bars[k].left = IF k = 1 THEN 0 ELSE BarEnd(num.bars[k - 1])
       /\ num.pc \in {"total", "done"} =>
             /\ Len(num.bars) = 5
             /\ num.xlim = <<0, BarEnd(num.bars[5])>>
       /\ num.pc = "done" =>
             /\ num.total = 180 + 200 + 260 + 280 + 220
             /\ num.total = BarEnd(num.bars[5])

\* the timeline is drawn: five bars, the last ending at 1140
C17_Witness ==
    /\ num.task = "timeline"
    /\ num.pc = "done"
    /\ Len(num.bars) = 5
    /\ BarEnd(num.bars[5]) = 1140

-----------------------------------------------------------------------------
(* C18 as stated: the weights sum to exactly 1 and equal visual and         *)
(* geometric depths give that same depth as the fused depth.                *)
C18_EqualDepthsFuseToThemselves ==
    (num.task = "fusion" /\ num.pc = "done") =>
       /\ FusionWeights[1] + FusionWeights[2] + FusionWeights[3] = 10
       /\ num.v = num.g => num.fused = 1000 * num.v

(* C18 as amended: the weights 0.5, 0.3, 0.2 sum to exactly 1 over three    *)
(* maps, the visual depth, the geometric depth and 0.9 times the visual     *)
(* depth; the fused depth lies between the smallest and the largest of      *)
(* these three, and equal visual and geometric depths d fuse to 0.98 d.     *)
Min2(a, b) == IF a < b THEN a ELSE b
Max2(a, b) == IF a < b THEN b ELSE a

C18_FusedIsAverageOfThreeMaps ==
    (num.task = "fusion" /\ num.pc = "done") =>
       /\ FusionWeights[1] + FusionWeights[2] + FusionWeights[3] = 10
       /\ num.fused >= Min2(900 * num.v, 1000 * num.g)
       /\ num.fused <= Max2(1000 * num.v, 1000 * num.g)
       /\ num.v = num.g => num.fused = 980 * num.v

\* a visual and a geometric depth of 2 m (60/30) have been fused
C18_Witness ==
    /\ num.task = "fusion"
    /\ num.pc = "done"
    /\ num.v = 60
    /\ num.g = 60

-----------------------------------------------------------------------------
(* C19: for every phase whose centre has been computed the centre is        *)
(* floor(phase*30/24), lies in 0..29 and is not below the centre of the     *)
(* phase before; in every completed row of the sampling matrix the entry at *)
(* the centre column is greater than every other entry of the row.          *)
C19_CentreIsValidMonotoneAndRowMaximum ==
    num.task = "sampling" =>
       /\ \A k \in 1..Len(num.centers) :
             /\ num.centers[k] = ((k - 1) * 30) \div 24
             /\ num.centers[k] \in 0..29
             /\ k > 1 => num.centers[k - 1] <= num.centers[k]
       /\ \A ph \in 0..23 :
             (ph < num.phase /\ ph < Len(num.centers)) =>
                \A env \in 0..29 :
                   env # num.centers[ph + 1] =>
                      EntryGreater(num.matrix[<<ph, num.centers[ph + 1]>>],
                                   num.matrix[<<ph, env>>])
       /\ num.pc = "done" => (num.phase = 24 /\ Len(num.centers) = 24)

\* all 24 rows are filled; the last centre is column 28
C19_Witness ==
    /\ num.task = "sampling"
    /\ num.pc = "done"
    /\ num.centers[24] = 28
    /\ ~num.matrix[<<23, 0>>].zero

====
